---- MODULE Spec2Model ----
(***************************************************************************)
(* Model of the restaurant CRUD API (Express + express-validator + MySQL): *)
(* the route handlers of routes/categorias.routes.js,                      *)
(* routes/productos.routes.js, routes/ingredientes.routes.js and           *)
(* routes/producto_ingrediente.routes.js.                                  *)
(*                                                                         *)
(* A handler is a sequence of steps separated by its awaits: the           *)
(* validation chain and the synchronous prefix (Receive), the first        *)
(* storage query with the code that follows it (Query1), and for Create    *)
(* and Partial Update the re-read with the response (Query2).  Requests of *)
(* different clients interleave at these steps, as Node.js interleaves     *)
(* them at the awaits.                                                     *)
(*                                                                         *)
(* Numbers are fixed-point, in hundredths: 100 is 1, 25 is 0.25.           *)
(***************************************************************************)
EXTENDS Integers, Sequences, FiniteSets, TLC

\* Largest id a table's AUTO_INCREMENT hands out in the model.
MaxId == 2

Clients == {1, 2}

Tables == {"categorias", "productos", "ingredientes", "producto_ingrediente"}

(***************************************************************************)
(* JavaScript values (request parameters, body fields, query parameters)   *)
(* and SQL values (columns): a type tag, a number and a string.            *)
(***************************************************************************)
Undefined == [t |-> "undefined", n |-> 0, s |-> ""]
Null == [t |-> "null", n |-> 0, s |-> ""]
Num(k) == [t |-> "number", n |-> k, s |-> ""]
Str(x) == [t |-> "string", n |-> 0, s |-> x]
Bool(b) == [t |-> "boolean", n |-> IF b THEN 1 ELSE 0, s |-> ""]

\* Keys a request body may carry: the columns of the four resources and
\* keys no handler reads.
Keys == {"nombre", "categoria_id", "descripcion", "precio", "disponible",
         "perecedero", "producto_id", "ingrediente_id", "cantidad_usada",
         "id", "created_at", "foo"}

\* A JSON body from the fields it carries; every other key is undefined.
Body(f) == [k \in Keys |-> IF k \in DOMAIN f THEN f[k] ELSE Undefined]

EmptyBody == [k \in Keys |-> Undefined]

\* The strings of the model that read as decimal numbers, with their value.
NumLit == [s \in {"0", "1", "2", "3", "4", "-1", "0.25", "45.5"} |->
             CASE s = "0" -> 0
               [] s = "1" -> 100
               [] s = "2" -> 200
               [] s = "3" -> 300
               [] s = "4" -> 400
               [] s = "-1" -> -100
               [] s = "0.25" -> 25
               [] s = "45.5" -> 4550]

IsNumLit(s) == s \in DOMAIN NumLit

\* The decimal text of an id, as it stands in a request path.
IdText(i) == CASE i = 1 -> "1" [] i = 2 -> "2" [] i = 3 -> "3" [] OTHER -> "4"

(***************************************************************************)
(* express-validator: a standard validator sees the value as text          *)
(* (numbers in decimal, booleans as true/false, undefined as the empty     *)
(* string); isString looks at the JavaScript type.                         *)
(***************************************************************************)
\* Does the value read as a decimal number.
IsNumeric(v) == \/ v.t = "number"
                \/ v.t = "string" /\ IsNumLit(v.s)

\* The number a value is read as (text that is no number reads as 0, as MySQL
\* reads it).
NumOf(v) == IF v.t = "string" THEN (IF IsNumLit(v.s) THEN NumLit[v.s] ELSE 0)
            ELSE v.n

isInt(v) == IsNumeric(v) /\ NumOf(v) % 100 = 0

isFloat(v) == IsNumeric(v)

\* isFloat() where the route has isFloat({ gt: 0 }).
isFloatGt0_NoBound(v) == IsNumeric(v)

isFloatGt0(v) == IsNumeric(v) /\ NumOf(v) > 0

isString(v) == v.t = "string"

notEmpty(v) == \/ v.t \in {"number", "boolean"}
               \/ v.t = "string" /\ v.s # ""

isBoolean(v) == \/ v.t = "boolean"
                \/ v.t = "number" /\ v.n \in {0, 100}
                \/ v.t = "string" /\ v.s \in {"true", "false", "1", "0"}

\* The boolean a value accepted by isBoolean stands for, as 0 or 1.
BoolMeaning(v) == IF v.t = "string" THEN (IF v.s \in {"true", "1"} THEN 1 ELSE 0)
                  ELSE IF v.t = "number" THEN (IF v.n = 100 THEN 1 ELSE 0)
                  ELSE v.n

\* JavaScript truthiness, as in `x ? 1 : 0`.
Truthy(v) == CASE v.t = "boolean" -> v.n = 1
               [] v.t = "number" -> v.n # 0
               [] v.t = "string" -> v.s # ""
               [] OTHER -> FALSE

\* .optional(): the rule applies only to a value that is not undefined.
optional(v, ok) == v = Undefined \/ ok

(***************************************************************************)
(* The validation chains of the routes.  A request carries the path        *)
(* parameter id (text) and the JSON body.                                  *)
(***************************************************************************)
\* param('id').isInt(), the chain of every GET /:id and DELETE /:id.
ParamIdChain(id) == isInt(id)

\* CategoriasPostChain without .notEmpty().
CategoriasPostChain_NoNotEmpty(b) == isString(b.nombre)

CategoriasPostChain(b) == isString(b.nombre) /\ notEmpty(b.nombre)

CategoriasPutChain(id, b) ==
    /\ isInt(id)
    /\ optional(b.nombre, isString(b.nombre) /\ notEmpty(b.nombre))

ProductosPostChain(b) ==
    /\ isInt(b.categoria_id)
    /\ isString(b.nombre) /\ notEmpty(b.nombre)
    /\ isFloat(b.precio)
    /\ optional(b.descripcion, isString(b.descripcion))
    /\ optional(b.disponible, isBoolean(b.disponible))

ProductosPutChain(id, b) ==
    /\ isInt(id)
    /\ optional(b.categoria_id, isInt(b.categoria_id))
    /\ optional(b.nombre, isString(b.nombre) /\ notEmpty(b.nombre))
    /\ optional(b.precio, isFloat(b.precio))
    /\ optional(b.descripcion, isString(b.descripcion))
    /\ optional(b.disponible, isBoolean(b.disponible))

IngredientesPostChain(b) ==
    /\ isString(b.nombre) /\ notEmpty(b.nombre)
    /\ optional(b.perecedero, isBoolean(b.perecedero))

IngredientesPutChain(id, b) ==
    /\ isInt(id)
    /\ optional(b.nombre, isString(b.nombre) /\ notEmpty(b.nombre))
    /\ optional(b.perecedero, isBoolean(b.perecedero))

ProductoIngredientePostChain(b) ==
    /\ isInt(b.producto_id)
    /\ isInt(b.ingrediente_id)
    /\ isFloatGt0(b.cantidad_usada)

ProductoIngredientePutChain(id, b) ==
    /\ isInt(id)
    /\ optional(b.producto_id, isInt(b.producto_id))
    /\ optional(b.ingrediente_id, isInt(b.ingrediente_id))
    /\ optional(b.cantidad_usada, isFloatGt0(b.cantidad_usada))

\* Does the request pass the chain of its route (List and the health check
\* have none).
ChainOk(r) ==
    CASE r.op \in {"list", "health"} -> TRUE
      [] r.op \in {"get", "delete"} -> ParamIdChain(r.id)
      [] r.op = "post" /\ r.res = "categorias" -> CategoriasPostChain(r.body)
      [] r.op = "post" /\ r.res = "productos" -> ProductosPostChain(r.body)
      [] r.op = "post" /\ r.res = "ingredientes" -> IngredientesPostChain(r.body)
      [] r.op = "post" /\ r.res = "producto_ingrediente" ->
             ProductoIngredientePostChain(r.body)
      [] r.op = "put" /\ r.res = "categorias" -> CategoriasPutChain(r.id, r.body)
      [] r.op = "put" /\ r.res = "productos" -> ProductosPutChain(r.id, r.body)
      [] r.op = "put" /\ r.res = "ingredientes" -> IngredientesPutChain(r.id, r.body)
      [] r.op = "put" /\ r.res = "producto_ingrediente" ->
             ProductoIngredientePutChain(r.id, r.body)

\* handleValidation: a failed chain is answered 400 and the handler is not
\* called; otherwise the handler runs.
handleValidation(chainOk) == IF chainOk THEN "next" ELSE "400"

(***************************************************************************)
(* The synchronous prefix of the handlers: the parameters of the INSERT,   *)
(* and the SET clause of the UPDATE as a sequence of <<column, value>>.    *)
(***************************************************************************)
\* x ? 1 : 0
Tinyint(v) == IF Truthy(v) THEN Num(100) ELSE Num(0)

\* x ?? d without the default.
Coalesce_Never(v, d) == v

\* x ?? d
Coalesce(v, d) == IF v \in {Undefined, Null} THEN d ELSE v

CategoriasInsertValues(b) == [nombre |-> b.nombre]

ProductosInsertValues(b) ==
    [categoria_id |-> b.categoria_id,
     nombre |-> b.nombre,
     descripcion |-> Coalesce(b.descripcion, Null),
     precio |-> b.precio,
     disponible |-> Coalesce(b.disponible, Num(100))]

IngredientesInsertValues(b) ==
    [nombre |-> b.nombre,
     perecedero |-> IF b.perecedero # Undefined THEN Tinyint(b.perecedero)
                    ELSE Num(100)]

ProductoIngredienteInsertValues(b) ==
    [producto_id |-> b.producto_id,
     ingrediente_id |-> b.ingrediente_id,
     cantidad_usada |-> b.cantidad_usada]

InsertValues(r) ==
    CASE r.res = "categorias" -> CategoriasInsertValues(r.body)
      [] r.res = "productos" -> ProductosInsertValues(r.body)
      [] r.res = "ingredientes" -> IngredientesInsertValues(r.body)
      [] r.res = "producto_ingrediente" -> ProductoIngredienteInsertValues(r.body)

\* CategoriasPutSets without the test for undefined.
CategoriasPutSets_NoCheck(b) == << <<"nombre", b.nombre>> >>

CategoriasPutSets(b) ==
    IF b.nombre = Undefined THEN << >> ELSE << <<"nombre", b.nombre>> >>

allowedFields == <<"categoria_id", "nombre", "descripcion", "precio", "disponible">>

\* ProductosPutSets looping over the keys of the body instead of allowedFields.
ProductosPutSets_BodyKeys(b) ==
    LET present(f) == b[f] # Undefined
        fields == SelectSeq(<<"id", "created_at", "foo", "categoria_id", "nombre",
                              "descripcion", "precio", "disponible">>, present)
    IN  [i \in 1..Len(fields) |-> <<fields[i], b[fields[i]]>>]

ProductosPutSets(b) ==
    LET present(f) == b[f] # Undefined
        fields == SelectSeq(allowedFields, present)
    IN  [i \in 1..Len(fields) |->
           <<fields[i], IF fields[i] = "disponible" THEN Tinyint(b[fields[i]])
                        ELSE b[fields[i]]>>]

\* IngredientesPutSets writing perecedero whether or not the body has it.
IngredientesPutSets_Always(b) ==
    (IF b.nombre # Undefined THEN << <<"nombre", b.nombre>> >> ELSE << >>)
    \o << <<"perecedero", Tinyint(b.perecedero)>> >>

IngredientesPutSets(b) ==
    (IF b.nombre # Undefined THEN << <<"nombre", b.nombre>> >> ELSE << >>)
    \o (IF b.perecedero # Undefined
        THEN << <<"perecedero", Tinyint(b.perecedero)>> >> ELSE << >>)

ProductoIngredientePutSets(b) ==
    (IF b.producto_id # Undefined
     THEN << <<"producto_id", b.producto_id>> >> ELSE << >>)
    \o (IF b.ingrediente_id # Undefined
        THEN << <<"ingrediente_id", b.ingrediente_id>> >> ELSE << >>)
    \o (IF b.cantidad_usada # Undefined
        THEN << <<"cantidad_usada", b.cantidad_usada>> >> ELSE << >>)

PutSets(r) ==
    CASE r.res = "categorias" -> CategoriasPutSets(r.body)
      [] r.res = "productos" -> ProductosPutSets(r.body)
      [] r.res = "ingredientes" -> IngredientesPutSets(r.body)
      [] r.res = "producto_ingrediente" -> ProductoIngredientePutSets(r.body)

(***************************************************************************)
(* Storage: the four MySQL tables.  A table is a function from the ids of  *)
(* its rows to the rows; a row is a function from its columns to SQL       *)
(* values.                                                                 *)
(***************************************************************************)
\* The timestamp the server assigns (DEFAULT CURRENT_TIMESTAMP).
ServerTime == Str("CURRENT_TIMESTAMP")

NoRows == [i \in {} |-> Null]

\* The columns that hold numbers (INT, DECIMAL, TINYINT); the others are text.
NumericColumns == {"categoria_id", "precio", "disponible", "perecedero",
                   "producto_id", "ingrediente_id", "cantidad_usada"}

\* The foreign keys of a table: column to referenced table.
ForeignKeys(t) ==
    CASE t = "productos" -> [categoria_id |-> "categorias"]
      [] t = "producto_ingrediente" ->
             [producto_id |-> "productos", ingrediente_id |-> "ingredientes"]
      [] OTHER -> NoRows

\* Can MySQL store the parameter in the column: text that is no number goes
\* into a numeric column only outside strict SQL mode.
Storable(col, v, strict) ==
    col \in NumericColumns /\ v.t = "string" /\ ~IsNumLit(v.s) => ~strict

\* The SQL value a parameter is stored as in a column.
ToSql(col, v) ==
    IF v.t = "null" THEN Null
    ELSE IF col \in NumericColumns
         THEN (IF v.t = "boolean" THEN Num(100 * v.n)
               ELSE IF IsNumeric(v) THEN Num(NumOf(v))
               ELSE Num(0))
         ELSE v

\* The row id WHERE id = ? selects, given the parameter.
IdOf(v) == NumOf(v) \div 100

\* Do the foreign keys among the columns written reference existing rows.
FkOk(d, t, vals) ==
    \A col \in DOMAIN ForeignKeys(t) \cap DOMAIN vals :
        IdOf(ToSql(col, vals[col])) \in DOMAIN d[ForeignKeys(t)[col]]

\* Is the row referenced by a row of another table.
Referenced(d, t, id) ==
    \E u \in Tables : \E col \in DOMAIN ForeignKeys(u) :
        /\ ForeignKeys(u)[col] = t
        /\ \E j \in DOMAIN d[u] : d[u][j][col] = Num(100 * id)

\* f with the pair k, v added or replaced.
With(f, k, v) == [x \in DOMAIN f \cup {k} |-> IF x = k THEN v ELSE f[x]]

\* f without k.
Without(f, k) == [x \in DOMAIN f \ {k} |-> f[x]]

\* An INSERT checked for its values only, not for its foreign keys.
InsertOk_NoForeignKey(d, t, vals, strict) ==
    \A col \in DOMAIN vals : Storable(col, vals[col], strict)

\* An INSERT into a producto_ingrediente with a unique key on the pair.
InsertOk_UniquePair(d, t, vals, strict) ==
    /\ \A col \in DOMAIN vals : Storable(col, vals[col], strict)
    /\ FkOk(d, t, vals)
    /\ t = "producto_ingrediente"
       => ~\E i \in DOMAIN d[t] :
              /\ d[t][i]["producto_id"] = ToSql("producto_id", vals["producto_id"])
              /\ d[t][i]["ingrediente_id"] =
                    ToSql("ingrediente_id", vals["ingrediente_id"])

\* INSERT INTO t (columns) VALUES (?...): does it succeed, and the table then.
InsertOk(d, t, vals, strict) ==
    /\ \A col \in DOMAIN vals : Storable(col, vals[col], strict)
    /\ FkOk(d, t, vals)

InsertRow(d, t, id, vals) ==
    [d EXCEPT ![t] = With(d[t], id,
        With([col \in DOMAIN vals |-> ToSql(col, vals[col])],
             "created_at", ServerTime))]

\* The SET clause as a function from the columns written to the parameters.
SetsAsFunction(sets) ==
    [col \in {sets[i][1] : i \in DOMAIN sets} |->
        sets[CHOOSE i \in DOMAIN sets : sets[i][1] = col][2]]

\* UPDATE t SET col = ?, ... WHERE id = ?: the rows matched (affectedRows, the
\* driver's default reports matched rows), whether it succeeds, the table then.
UpdateMatches(d, t, id) == IF id \in DOMAIN d[t] THEN 1 ELSE 0

UpdateOk(d, t, id, sets, strict) ==
    id \in DOMAIN d[t] =>
        /\ \A i \in DOMAIN sets : Storable(sets[i][1], sets[i][2], strict)
        /\ FkOk(d, t, SetsAsFunction(sets))

\* An UPDATE that writes the whole row: the columns supplied to their values,
\* every other one back to 1 (numeric) or NULL (text).
UpdateRow_WholeRow(d, t, id, sets) ==
    IF id \notin DOMAIN d[t] THEN d
    ELSE LET vals == SetsAsFunction(sets)
         IN  [d EXCEPT ![t][id] =
                [col \in DOMAIN d[t][id] |->
                    IF col \in DOMAIN vals THEN ToSql(col, vals[col])
                    ELSE IF col = "created_at" THEN d[t][id][col]
                    ELSE IF col \in NumericColumns THEN Num(100)
                    ELSE Null]]

UpdateRow(d, t, id, sets) ==
    IF id \notin DOMAIN d[t] THEN d
    ELSE LET vals == SetsAsFunction(sets)
         IN  [d EXCEPT ![t][id] =
                [col \in DOMAIN d[t][id] |->
                    IF col \in DOMAIN vals THEN ToSql(col, vals[col])
                    ELSE d[t][id][col]]]

\* result.changedRows: the rows whose values the UPDATE changed.
UpdateChanges(d, t, id, sets) == IF UpdateRow(d, t, id, sets) = d THEN 0 ELSE 1

\* result.affectedRows of a connection without the FOUND_ROWS flag: the rows
\* the UPDATE changed.
affectedRows_Changed(d, t, id, sets) == UpdateChanges(d, t, id, sets)

\* A handler that does not look at result.affectedRows: every UPDATE counts
\* as having found its row.
affectedRows_Unchecked(d, t, id, sets) == 1

\* result.affectedRows of the UPDATE: the driver connects with FOUND_ROWS, so
\* it is the rows the WHERE matched, changed or not.
affectedRows(d, t, id, sets) == UpdateMatches(d, t, id)

\* A DELETE that removes no row.
DeleteRow_Nothing(d, t, id) == d

\* A DELETE that also removes the rows of other tables that reference the row.
DeleteRow_Cascade(d, t, id) ==
    [u \in Tables |->
        IF u = t THEN Without(d[t], id)
        ELSE [j \in {k \in DOMAIN d[u] :
                        ~\E col \in DOMAIN ForeignKeys(u) :
                            ForeignKeys(u)[col] = t /\ d[u][k][col] = Num(100 * id)}
                |-> d[u][j]]]

\* DELETE FROM t WHERE id = ?
DeleteRow(d, t, id) ==
    IF id \in DOMAIN d[t] THEN [d EXCEPT ![t] = Without(d[t], id)] ELSE d

(***************************************************************************)
(* The SELECT of the reads: the projection, with the JOINs of productos    *)
(* and producto_ingrediente, and ORDER BY id DESC.                         *)
(***************************************************************************)
\* SelectById joining the tables as they were seeded instead of as they are:
\* the label a row would show if it had been stored beside the row.
SelectById_StoredLabel(d, t, id) ==
    IF id \notin DOMAIN d[t] THEN << >>
    ELSE LET row == With(d[t][id], "id", Num(100 * id))
             old(u, s, i) == IF i \in DOMAIN s THEN s[i].nombre ELSE d[u][i].nombre
         IN  CASE t = "productos" ->
                    LET c == IdOf(row.categoria_id)
                    IN  IF c \in DOMAIN d.categorias
                        THEN << With(row, "categoria",
                                     old("categorias",
                                         1 :> [nombre |-> Str("Hamburguesas")], c)) >>
                        ELSE << >>
               [] t = "producto_ingrediente" ->
                    LET p == IdOf(row.producto_id)
                        g == IdOf(row.ingrediente_id)
                    IN  IF p \in DOMAIN d.productos /\ g \in DOMAIN d.ingredientes
                        THEN << With(With(row, "producto",
                                          old("productos",
                                              1 :> [nombre |-> Str("Cheeseburger")], p)),
                                     "ingrediente",
                                     old("ingredientes",
                                         1 :> [nombre |-> Str("Queso")], g)) >>
                        ELSE << >>
               [] OTHER -> << row >>

\* The rows the SELECT ... WHERE id = ? returns: none or one.
SelectById(d, t, id) ==
    IF id \notin DOMAIN d[t] THEN << >>
    ELSE LET row == With(d[t][id], "id", Num(100 * id))
         IN  CASE t = "productos" ->
                    LET c == IdOf(row.categoria_id)
                    IN  IF c \in DOMAIN d.categorias
                        THEN << With(row, "categoria", d.categorias[c].nombre) >>
                        ELSE << >>
               [] t = "producto_ingrediente" ->
                    LET p == IdOf(row.producto_id)
                        g == IdOf(row.ingrediente_id)
                    IN  IF p \in DOMAIN d.productos /\ g \in DOMAIN d.ingredientes
                        THEN << With(With(row, "producto", d.productos[p].nombre),
                                     "ingrediente", d.ingredientes[g].nombre) >>
                        ELSE << >>
               [] OTHER -> << row >>

Max(S) == CHOOSE x \in S : \A y \in S : y <= x

\* The ids of S from the largest to the smallest.
RECURSIVE Descending(_)
Descending(S) == IF S = {} THEN << >>
                 ELSE <<Max(S)>> \o Descending(S \ {Max(S)})

RECURSIVE Concat(_, _)
Concat(f, ids) == IF ids = << >> THEN << >>
                  ELSE f[Head(ids)] \o Concat(f, Tail(ids))

Reverse(q) == [i \in 1..Len(q) |-> q[Len(q) + 1 - i]]

\* ORDER BY id ASC in place of DESC.
OrderBy_Ascending(S) == Reverse(Descending(S))

\* ORDER BY id DESC: the order of the rows of a SELECT of all the rows.
OrderBy(S) == Descending(S)

\* The rows the SELECT ... ORDER BY id DESC returns.

SelectAll(d, t) ==
    Concat([i \in DOMAIN d[t] |-> SelectById(d, t, i)], OrderBy(DOMAIN d[t]))

(***************************************************************************)
(* The requests of the model.  A run works on one resource (focus) and the *)
(* rows it references.  In a sequential run client 1 sends every request   *)
(* of the model, one after the other; in a racing run client 1 sends a few *)
(* requests on row 1 and client 2 the writes that race with them.          *)
(***************************************************************************)
ValidIds == {Str(IdText(i)) : i \in 1..MaxId}

BadId == Str("abc")

Request(res, op, id, body) == [res |-> res, op |-> op, id |-> id, body |-> body]

\* The five operations of a resource over the bodies given for Create and
\* Partial Update; rows other than row 1 are updated with the bodies `few`.
Crud(res, postBodies, putBodies, few) ==
    {Request(res, "list", Undefined, EmptyBody)}
    \cup {Request(res, op, id, EmptyBody) :
             op \in {"get", "delete"}, id \in ValidIds \cup {BadId}}
    \cup {Request(res, "post", Undefined, b) : b \in postBodies}
    \cup {Request(res, "put", Str("1"), b) : b \in putBodies}
    \cup {Request(res, "put", id, b) : id \in ValidIds \cup {BadId}, b \in few}

CategoriasPostBodies ==
    {Body([nombre |-> Str("Hamburguesas")]),
     Body([nombre |-> Str("Bebidas"), id |-> Num(900), created_at |-> Str("2020")]),
     Body([nombre |-> Str("")]),
     Body([nombre |-> Num(500)]),
     EmptyBody}

CategoriasPutBodies == CategoriasPostBodies \cup {Body([foo |-> Num(100)])}

ProductosPostBodies ==
    {Body([categoria_id |-> Num(100), nombre |-> Str("Cheeseburger"),
           precio |-> Num(4550)]),
     Body([categoria_id |-> Str("1"), nombre |-> Str("Soda"),
           descripcion |-> Str("fria"), precio |-> Num(-100),
           disponible |-> Bool(FALSE)]),
     Body([categoria_id |-> Num(200), nombre |-> Str("Soda"), precio |-> Num(4550)]),
     Body([categoria_id |-> Num(100), nombre |-> Str("Soda"), precio |-> Str("45.5"),
           disponible |-> Str("false")]),
     Body([categoria_id |-> Num(100), precio |-> Num(4550)]),
     Body([categoria_id |-> Num(100), nombre |-> Str("Soda"), precio |-> Str("abc")]),
     Body([categoria_id |-> Num(150), nombre |-> Str("Soda"), precio |-> Num(4550)]),
     Body([categoria_id |-> Num(100), nombre |-> Str("Soda"), precio |-> Num(4550),
           disponible |-> Str("yes")])}

ProductosPutBodies ==
    {EmptyBody,
     Body([foo |-> Num(100)]),
     Body([disponible |-> Bool(FALSE)]),
     Body([disponible |-> Str("false")]),
     Body([nombre |-> Str("Soda"), id |-> Num(900)]),
     Body([categoria_id |-> Num(200)]),
     Body([precio |-> Num(-100)]),
     Body([descripcion |-> Str("fria"), precio |-> Str("45.5")]),
     Body([precio |-> Str("abc")]),
     Body([nombre |-> Str("")])}

IngredientesPostBodies ==
    {Body([nombre |-> Str("Queso")]),
     Body([nombre |-> Str("Sal"), perecedero |-> Bool(FALSE)]),
     Body([nombre |-> Str("Sal"), perecedero |-> Str("false")]),
     Body([perecedero |-> Bool(TRUE)]),
     Body([nombre |-> Str("Queso"), perecedero |-> Str("yes")])}

IngredientesPutBodies ==
    {EmptyBody,
     Body([foo |-> Num(100)]),
     Body([nombre |-> Str("Sal")]),
     Body([perecedero |-> Bool(FALSE)]),
     Body([perecedero |-> Str("0")]),
     Body([nombre |-> Str("Queso"), perecedero |-> Bool(TRUE)]),
     Body([nombre |-> Str("")]),
     Body([perecedero |-> Str("yes")])}

ProductoIngredientePostBodies ==
    {Body([producto_id |-> Num(100), ingrediente_id |-> Num(100),
           cantidad_usada |-> Num(25)]),
     Body([producto_id |-> Str("1"), ingrediente_id |-> Num(100),
           cantidad_usada |-> Str("2")]),
     Body([producto_id |-> Num(200), ingrediente_id |-> Num(100),
           cantidad_usada |-> Num(25)]),
     Body([producto_id |-> Num(100), ingrediente_id |-> Num(100),
           cantidad_usada |-> Num(0)]),
     Body([producto_id |-> Num(100), ingrediente_id |-> Num(100),
           cantidad_usada |-> Str("-1")]),
     Body([producto_id |-> Num(100), ingrediente_id |-> Num(100)]),
     Body([producto_id |-> Str("abc"), ingrediente_id |-> Num(100),
           cantidad_usada |-> Num(25)])}

ProductoIngredientePutBodies ==
    {EmptyBody,
     Body([foo |-> Num(100)]),
     Body([cantidad_usada |-> Num(200)]),
     Body([ingrediente_id |-> Str("1"), cantidad_usada |-> Num(25)]),
     Body([producto_id |-> Num(200)]),
     Body([cantidad_usada |-> Num(0)]),
     Body([cantidad_usada |-> Num(-100)])}

\* A rename and a delete of row 1 of a table.
Rename(res, nombre) ==
    {Request(res, "put", Str("1"), Body([nombre |-> Str(nombre)])),
     Request(res, "delete", Str("1"), EmptyBody)}

\* The writes to the rows the resource references.
ParentRequests(f) ==
    CASE f = "productos" -> Rename("categorias", "Pizzas")
      [] f = "producto_ingrediente" ->
             Rename("productos", "Soda") \cup Rename("ingredientes", "Sal")
      [] OTHER -> {}

\* GET /health
HealthRequest == Request("health", "health", Undefined, EmptyBody)

\* The requests of a sequential run.
MainRequests(f) ==
    ParentRequests(f) \cup {HealthRequest} \cup
    CASE f = "categorias" ->
             Crud(f, CategoriasPostBodies, CategoriasPutBodies,
                  {EmptyBody, Body([nombre |-> Str("Bebidas")])})
      [] f = "productos" ->
             Crud(f, ProductosPostBodies, ProductosPutBodies,
                  {EmptyBody, Body([disponible |-> Bool(FALSE)])})
      [] f = "ingredientes" ->
             Crud(f, IngredientesPostBodies, IngredientesPutBodies,
                  {EmptyBody, Body([nombre |-> Str("Sal")])})
      [] f = "producto_ingrediente" ->
             Crud(f, ProductoIngredientePostBodies, ProductoIngredientePutBodies,
                  {EmptyBody, Body([cantidad_usada |-> Num(200)])})

\* Two Partial Updates of a resource that write different columns (the
\* categories have one column).
RaceBodies(f) ==
    CASE f = "categorias" ->
             {Body([nombre |-> Str("Bebidas")]), Body([nombre |-> Str("Pizzas")])}
      [] f = "productos" ->
             {Body([nombre |-> Str("Soda")]), Body([disponible |-> Bool(FALSE)])}
      [] f = "ingredientes" ->
             {Body([nombre |-> Str("Sal")]), Body([perecedero |-> Bool(FALSE)])}
      [] f = "producto_ingrediente" ->
             {Body([ingrediente_id |-> Num(100)]), Body([cantidad_usada |-> Num(200)])}

\* The Create of a racing run.
RaceCreate(f) ==
    CASE f = "categorias" -> Body([nombre |-> Str("Hamburguesas")])
      [] f = "productos" ->
             Body([categoria_id |-> Num(100), nombre |-> Str("Cheeseburger"),
                   precio |-> Num(4550)])
      [] f = "ingredientes" -> Body([nombre |-> Str("Queso")])
      [] f = "producto_ingrediente" ->
             Body([producto_id |-> Num(100), ingrediente_id |-> Num(100),
                   cantidad_usada |-> Num(25)])

\* The requests of a racing run: of client 1, and of client 2.
RaceRequests(c, f) ==
    {Request(f, "put", Str("1"), b) : b \in RaceBodies(f)}
    \cup {Request(f, "delete", Str("1"), EmptyBody)}
    \cup IF c = 1
         THEN {Request(f, "list", Undefined, EmptyBody),
               Request(f, "get", Str("1"), EmptyBody),
               Request(f, "post", Undefined, RaceCreate(f))}
         ELSE ParentRequests(f)

Requests(c, f, race) ==
    IF race THEN RaceRequests(c, f)
    ELSE IF c = 1 THEN MainRequests(f) ELSE {}

(***************************************************************************)
(* The state.                                                              *)
(***************************************************************************)
VARIABLES
    focus,      \* the resource the run works on
    racing,     \* is the run a racing run
    db,         \* the tables
    nextId,     \* per table, the next AUTO_INCREMENT value
    pc,         \* per client: "idle", "q1" (before the first query),
                \* "q2" (before the re-read), "done" (answered)
    req,        \* per client, the request
    sets,       \* per client, the SET clause a Partial Update built
    insertId,   \* per client, result.insertId of its INSERT
    resp,       \* per client, the response sent
    pool,       \* per client, the getPool() calls of the request
    queries,    \* per client, the pool.query() calls of the request
    outcome,    \* per client, what decided the response
    afterDelete,\* per client: was the row addressed deleted before the request
    deleted,    \* the <<table, id>> a Delete removed
    created,    \* per table, the ids of its rows in the order of their INSERTs
    fresh,      \* the last INSERT, while no other write followed it and its
                \* Create was not answered with an error
    log,        \* per client, the error its request wrote with console.error
    changedRows,\* per client, result.changedRows of its UPDATE
    sent        \* per client, the responses sent for its request

vars == <<focus, racing, db, nextId, pc, req, sets, insertId, resp, pool, queries, outcome,
          afterDelete, deleted, created, fresh, log,
          changedRows, sent>>

NoRequest == Request("", "", Undefined, EmptyBody)

NoResponse == [status |-> 0, ok |-> FALSE, message |-> "", hasData |-> FALSE,
               data |-> << >>, keys |-> {}]

NoFresh == [res |-> "", id |-> 0, body |-> EmptyBody]

\* res.status(status).json({ok, message}) and json({ok, message, data}); a data
\* of undefined is left out of the JSON.  keys are the keys of the JSON body.
Json(status, ok, message) ==
    [status |-> status, ok |-> ok, message |-> message, hasData |-> FALSE,
     data |-> << >>, keys |-> {"ok", "message"}]

JsonRow(status, ok, message, rows) ==
    [status |-> status, ok |-> ok, message |-> message, hasData |-> rows # << >>,
     data |-> IF rows = << >> THEN << >> ELSE <<rows[1]>>,
     keys |-> IF rows = << >> THEN {"ok", "message"} ELSE {"ok", "message", "data"}]

JsonRows(status, ok, message, rows) ==
    [status |-> status, ok |-> ok, message |-> message, hasData |-> TRUE,
     data |-> rows, keys |-> {"ok", "message", "data"}]

\* res.status(status).json({status, db}) of the health check: the body has
\* neither ok nor message (the record's ok and message stand for none).
HealthJson(status) ==
    [status |-> status, ok |-> FALSE, message |-> "", hasData |-> FALSE,
     data |-> << >>, keys |-> {"status", "db"}]

\* The table as it is seeded for the runs on a resource that references it.
SeedCategorias == 1 :> [nombre |-> Str("Hamburguesas"), created_at |-> ServerTime]

SeedProductos ==
    1 :> [categoria_id |-> Num(100), nombre |-> Str("Cheeseburger"),
          descripcion |-> Null, precio |-> Num(4550), disponible |-> Num(100),
          created_at |-> ServerTime]

SeedIngredientes ==
    1 :> [nombre |-> Str("Queso"), perecedero |-> Num(100), created_at |-> ServerTime]

Seed(f) ==
    [t \in Tables |->
        CASE t = "categorias" /\ f \in {"productos", "producto_ingrediente"} ->
                 SeedCategorias
          [] t = "productos" /\ f = "producto_ingrediente" -> SeedProductos
          [] t = "ingredientes" /\ f = "producto_ingrediente" -> SeedIngredientes
          [] OTHER -> NoRows]

Init ==
    /\ focus \in Tables
    /\ racing \in BOOLEAN
    /\ db = Seed(focus)
    /\ nextId = [t \in Tables |-> Cardinality(DOMAIN db[t]) + 1]
    /\ pc = [c \in Clients |-> "idle"]
    /\ req = [c \in Clients |-> NoRequest]
    /\ sets = [c \in Clients |-> << >>]
    /\ insertId = [c \in Clients |-> 0]
    /\ resp = [c \in Clients |-> NoResponse]
    /\ pool = [c \in Clients |-> 0]
    /\ queries = [c \in Clients |-> 0]
    /\ outcome = [c \in Clients |-> ""]
    /\ afterDelete = [c \in Clients |-> FALSE]
    /\ deleted = {}
    /\ created = [t \in Tables |-> [i \in DOMAIN db[t] |-> i]]
    /\ fresh = NoFresh
    /\ log = [c \in Clients |-> ""]
    /\ changedRows = [c \in Clients |-> 0]
    /\ sent = [c \in Clients |-> 0]

(***************************************************************************)
(* The handlers.                                                           *)
(***************************************************************************)
\* Creates of a table that have not run their INSERT yet.
PendingInserts(t) ==
    Cardinality({c \in Clients : pc[c] = "q1" /\ req[c].op = "post" /\ req[c].res = t})

\* A request arrives: the validation chain and handleValidation, then the
\* handler up to its first await (a Partial Update builds its SET clause and
\* answers 400 when it is empty).
Receive(c) ==
    /\ pc[c] \in {"idle", "done"}
    /\ \E r \in Requests(c, focus, racing) :
        /\ r.op = "post" => nextId[r.res] + PendingInserts(r.res) <= MaxId
        /\ req' = [req EXCEPT ![c] = r]
        /\ afterDelete' = [afterDelete EXCEPT ![c] =
               r.op \in {"get", "put", "delete"} /\ isInt(r.id)
               /\ <<r.res, IdOf(r.id)>> \in deleted]
        /\ IF handleValidation(ChainOk(r)) = "400"
           THEN /\ resp' = [resp EXCEPT ![c] = Json(400, FALSE, "Error de validacion")]
                /\ outcome' = [outcome EXCEPT ![c] = "validation"]
                /\ pc' = [pc EXCEPT ![c] = "done"]
                /\ sets' = [sets EXCEPT ![c] = << >>]
           ELSE IF r.op = "put" /\ Len(PutSets(r)) = 0
           THEN /\ resp' = [resp EXCEPT ![c] = Json(400, FALSE, "Nada para actualizar")]
                /\ outcome' = [outcome EXCEPT ![c] = "empty"]
                /\ pc' = [pc EXCEPT ![c] = "done"]
                /\ sets' = [sets EXCEPT ![c] = << >>]
           ELSE /\ resp' = [resp EXCEPT ![c] = NoResponse]
                /\ outcome' = [outcome EXCEPT ![c] = ""]
                /\ pc' = [pc EXCEPT ![c] = "q1"]
                /\ sets' = [sets EXCEPT ![c] = IF r.op = "put" THEN PutSets(r) ELSE << >>]
    /\ insertId' = [insertId EXCEPT ![c] = 0]
    /\ pool' = [pool EXCEPT ![c] = 0]
    /\ queries' = [queries EXCEPT ![c] = 0]
    /\ log' = [log EXCEPT ![c] = ""]
    /\ changedRows' = [changedRows EXCEPT ![c] = 0]
    /\ sent' = [sent EXCEPT ![c] = IF pc'[c] = "done" THEN 1 ELSE 0]
    /\ UNCHANGED <<focus, racing, db, nextId, deleted, created, fresh>>

\* The errors the driver throws: getPool() cannot connect, the connection
\* drops during a query, MySQL rejects the statement.
PoolError == "connect ECONNREFUSED"
QueryError == "PROTOCOL_CONNECTION_LOST"
ForeignKeyError == "ER_NO_REFERENCED_ROW_2"
ValueError == "ER_TRUNCATED_WRONG_VALUE_FOR_FIELD"
ReferencedError == "ER_ROW_IS_REFERENCED_2"

\* The error of a rejected INSERT or UPDATE.
WriteError(d, t, vals) == IF FkOk(d, t, vals) THEN ValueError ELSE ForeignKeyError

\* console.error(err) of the catch branch.
console_error(c, err) == log' = [log EXCEPT ![c] = err]

\* A catch branch that answers without status(500).
CatchResponse_NoStatus(op) == Json(200, FALSE, "Error")

\* The status and message of the catch branch of a handler.
CatchResponse(op) ==
    IF op = "health" THEN HealthJson(500)
    ELSE Json(500, FALSE,
              CASE op = "list" -> "Error listando"
                [] op = "get" -> "Error obteniendo"
                [] op = "post" -> "Error insertando"
                [] op = "put" -> "Error actualizando"
                [] op = "delete" -> "Error eliminando")

\* An early 404 without its return: the handler goes on to the res.json that
\* ends it, and sends a second response.
Answer_NoReturn(c, r, why, issued) ==
    /\ resp' = [resp EXCEPT ![c] = r]
    /\ outcome' = [outcome EXCEPT ![c] = why]
    /\ pc' = [pc EXCEPT ![c] = "done"]
    /\ pool' = [pool EXCEPT ![c] = 1]
    /\ queries' = [queries EXCEPT ![c] = @ + issued]
    /\ sent' = [sent EXCEPT ![c] = @ + (IF r.status = 404 THEN 2 ELSE 1)]

\* The response and the bookkeeping of a step that ends the request.
Answer(c, r, why, issued) ==
    /\ resp' = [resp EXCEPT ![c] = r]
    /\ outcome' = [outcome EXCEPT ![c] = why]
    /\ pc' = [pc EXCEPT ![c] = "done"]
    /\ pool' = [pool EXCEPT ![c] = 1]
    /\ queries' = [queries EXCEPT ![c] = @ + issued]
    /\ sent' = [sent EXCEPT ![c] = @ + 1]

\* A catch branch that logs the error and leaves the request to run its query
\* again.
Catch_Retry(c) ==
    /\ pc[c] \in {"q1", "q2"} /\ queries[c] < 3
    /\ console_error(c, QueryError)
    /\ queries' = [queries EXCEPT ![c] = @ + 1]
    /\ UNCHANGED <<focus, racing, db, nextId, pc, req, sets, insertId, resp, pool, outcome,
                   afterDelete, deleted, created, fresh, changedRows, sent>>

\* getPool() rejects, or the query does: the catch branch answers.
Catch(c) ==
    /\ pc[c] \in {"q1", "q2"}
    /\ \E issued \in {0, 1} :
        /\ issued = 0 => pc[c] = "q1"
        /\ console_error(c, IF issued = 0 THEN PoolError ELSE QueryError)
        /\ Answer(c, CatchResponse(req[c].op), "storage", issued)
    /\ fresh' = IF pc[c] = "q2" /\ req[c].op = "post" THEN NoFresh ELSE fresh
    /\ UNCHANGED <<focus, racing, db, nextId, req, sets, insertId, afterDelete, deleted,
                   created, changedRows>>

\* GET /health: SELECT 1 AS ok, answered {status: 'ok', db: true}.
Health(c) ==
    /\ pc[c] = "q1" /\ req[c].op = "health"
    /\ Answer(c, HealthJson(200), "ok", 1)
    /\ UNCHANGED <<focus, racing, db, nextId, req, sets, insertId, afterDelete, deleted,
                   created, fresh, log, changedRows>>

\* GET /
List(c) ==
    /\ pc[c] = "q1" /\ req[c].op = "list"
    /\ Answer(c, JsonRows(200, TRUE, "Consulta realizada correctamente",
                          SelectAll(db, req[c].res)), "ok", 1)
    /\ UNCHANGED <<focus, racing, db, nextId, req, sets, insertId, afterDelete, deleted,
                   created, fresh, log, changedRows>>

\* GET /:id
GetById(c) ==
    /\ pc[c] = "q1" /\ req[c].op = "get"
    /\ LET rows == SelectById(db, req[c].res, IdOf(req[c].id))
       IN  IF Len(rows) = 0
           THEN Answer(c, Json(404, FALSE, "no encontrado"), "notfound", 1)
           ELSE Answer(c, JsonRow(200, TRUE, "Consulta realizada correctamente", rows),
                       "ok", 1)
    /\ UNCHANGED <<focus, racing, db, nextId, req, sets, insertId, afterDelete, deleted,
                   created, fresh, log, changedRows>>

\* POST /: the INSERT.  A statement MySQL rejects (a foreign key without its
\* row, a value the column cannot take) throws.
Insert(c) ==
    /\ pc[c] = "q1" /\ req[c].op = "post"
    /\ \E strict \in BOOLEAN :
        LET t == req[c].res
            vals == InsertValues(req[c])
        IN  IF InsertOk(db, t, vals, strict)
            THEN /\ db' = InsertRow(db, t, nextId[t], vals)
                 /\ nextId' = [nextId EXCEPT ![t] = @ + 1]
                 /\ insertId' = [insertId EXCEPT ![c] = nextId[t]]
                 /\ created' = [created EXCEPT ![t] = Append(@, nextId[t])]
                 /\ fresh' = [res |-> t, id |-> nextId[t], body |-> req[c].body]
                 /\ pc' = [pc EXCEPT ![c] = "q2"]
                 /\ pool' = [pool EXCEPT ![c] = 1]
                 /\ queries' = [queries EXCEPT ![c] = @ + 1]
                 /\ UNCHANGED <<resp, outcome, log, sent>>
            ELSE /\ console_error(c, WriteError(db, t, vals))
                 /\ Answer(c, CatchResponse("post"), "storage", 1)
                 /\ UNCHANGED <<db, nextId, insertId, created, fresh>>
    /\ UNCHANGED <<focus, racing, req, sets, afterDelete, deleted, changedRows>>

\* PUT /:id: the UPDATE, and the 404 when it matched no row.
Update(c) ==
    /\ pc[c] = "q1" /\ req[c].op = "put"
    /\ \E strict \in BOOLEAN :
        LET t == req[c].res
            id == IdOf(req[c].id)
        IN  IF ~UpdateOk(db, t, id, sets[c], strict)
            THEN /\ console_error(c, WriteError(db, t, SetsAsFunction(sets[c])))
                 /\ Answer(c, CatchResponse("put"), "storage", 1)
                 /\ UNCHANGED <<db, fresh, changedRows>>
            ELSE IF affectedRows(db, t, id, sets[c]) = 0
            THEN /\ Answer(c, Json(404, FALSE, "no encontrado"), "notfound", 1)
                 /\ UNCHANGED <<db, fresh, log, changedRows>>
            ELSE /\ db' = UpdateRow(db, t, id, sets[c])
                 /\ changedRows' = [changedRows EXCEPT ![c] =
                        UpdateChanges(db, t, id, sets[c])]
                 /\ fresh' = NoFresh
                 /\ pc' = [pc EXCEPT ![c] = "q2"]
                 /\ pool' = [pool EXCEPT ![c] = 1]
                 /\ queries' = [queries EXCEPT ![c] = @ + 1]
                 /\ UNCHANGED <<resp, outcome, log, sent>>
    /\ UNCHANGED <<focus, racing, nextId, req, sets, insertId, afterDelete, deleted,
                   created>>

\* DELETE /:id.  The handler deletes from its own table only; of a row other
\* rows reference, MySQL either rejects the DELETE (the foreign key) or, with
\* no constraint on the table, deletes it and leaves the references dangling.
Delete(c) ==
    /\ pc[c] = "q1" /\ req[c].op = "delete"
    /\ \E constrained \in BOOLEAN :
        LET t == req[c].res
            id == IdOf(req[c].id)
        IN  IF id \notin DOMAIN db[t]
            THEN /\ Answer(c, Json(404, FALSE, "no encontrado"), "notfound", 1)
                 /\ UNCHANGED <<db, deleted, fresh, log>>
            ELSE IF Referenced(db, t, id) /\ constrained
            THEN /\ console_error(c, ReferencedError)
                 /\ Answer(c, CatchResponse("delete"), "storage", 1)
                 /\ UNCHANGED <<db, deleted, fresh>>
            ELSE /\ UNCHANGED log
                 /\ db' = DeleteRow(db, t, id)
                 /\ deleted' = deleted \cup {<<t, id>>}
                 /\ fresh' = NoFresh
                 /\ Answer(c, Json(200, TRUE, "eliminado"), "ok", 1)
    /\ UNCHANGED <<focus, racing, nextId, req, sets, insertId, afterDelete, created,
                   changedRows>>

\* The re-read of POST / and PUT /:id, and the response with rows[0].
ReRead(c) ==
    /\ pc[c] = "q2"
    /\ LET t == req[c].res
           post == req[c].op = "post"
           rows == SelectById(db, t, IF post THEN insertId[c] ELSE IdOf(req[c].id))
       IN  Answer(c, JsonRow(IF post THEN 201 ELSE 200, TRUE,
                             IF post THEN "creado" ELSE "actualizado", rows), "ok", 1)
    /\ UNCHANGED <<focus, racing, db, nextId, req, sets, insertId, afterDelete, deleted,
                   created, fresh, log, changedRows>>

Next ==
    \E c \in Clients :
        \/ Receive(c)
        \/ Health(c)
        \/ List(c)
        \/ GetById(c)
        \/ Insert(c)
        \/ Update(c)
        \/ Delete(c)
        \/ ReRead(c)
        \/ Catch(c)

Spec == Init /\ [][Next]_vars

\* The same program over tables whose foreign keys MySQL enforces on DELETE
\* too: a row other rows reference is never deleted.
KeepsReferenced ==
    \A t \in Tables : \A i \in DOMAIN db[t] :
        Referenced(db, t, i) => i \in DOMAIN db'[t]

NextForeignKeys ==
    \E c \in Clients :
        \/ Receive(c)
        \/ Health(c)
        \/ List(c)
        \/ GetById(c)
        \/ Insert(c)
        \/ Update(c)
        \/ Delete(c) /\ KeepsReferenced
        \/ ReRead(c)
        \/ Catch(c)

SpecForeignKeys == Init /\ [][NextForeignKeys]_vars

\* The step that ends an await of client c's request: the query returns, or
\* the query or getPool() fails.
Resume(c) ==
    \/ Health(c)
    \/ List(c)
    \/ GetById(c)
    \/ Insert(c)
    \/ Update(c)
    \/ Delete(c)
    \/ ReRead(c)
    \/ Catch(c)

\* The runs of the specification with fairness: the sequential runs on the
\* four resources, and the racing runs on all but producto_ingrediente.
InitQueriesReturn == Init /\ (racing => focus # "producto_ingrediente")

\* The same program with every storage call eventually returning or failing:
\* a request that waits at an await is eventually resumed.
SpecQueriesReturn ==
    InitQueriesReturn /\ [][Next]_vars /\ \A c \in Clients : WF_vars(Resume(c))

(***************************************************************************)
(* The resource definitions the properties are stated with: the fields a   *)
(* client may write, the required ones, and the rule of each field.        *)
(***************************************************************************)
Updatable(res) ==
    CASE res = "categorias" -> {"nombre"}
      [] res = "productos" ->
             {"categoria_id", "nombre", "descripcion", "precio", "disponible"}
      [] res = "ingredientes" -> {"nombre", "perecedero"}
      [] res = "producto_ingrediente" ->
             {"producto_id", "ingrediente_id", "cantidad_usada"}
      [] OTHER -> {}

Required(res) ==
    CASE res = "categorias" -> {"nombre"}
      [] res = "productos" -> {"categoria_id", "nombre", "precio"}
      [] res = "ingredientes" -> {"nombre"}
      [] res = "producto_ingrediente" ->
             {"producto_id", "ingrediente_id", "cantidad_usada"}
      [] OTHER -> {}

BooleanFields == {"disponible", "perecedero"}

\* Does a value that is present satisfy the rule of its field.
FieldRule(k, v) ==
    CASE k = "nombre" -> v.t = "string" /\ v.s # ""
      [] k = "descripcion" -> v.t = "string"
      [] k \in {"categoria_id", "producto_id", "ingrediente_id"} ->
             IsNumeric(v) /\ NumOf(v) % 100 = 0
      [] k = "precio" -> IsNumeric(v)
      [] k = "cantidad_usada" -> IsNumeric(v) /\ NumOf(v) > 0
      [] k \in BooleanFields -> isBoolean(v)

\* A request that fails validation: a path id that is no integer, a Create
\* without a required field, a field present that violates its rule.
Invalid(r) ==
    \/ r.op \in {"get", "put", "delete"}
       /\ ~(IsNumeric(r.id) /\ NumOf(r.id) % 100 = 0)
    \/ r.op = "post" /\ \E k \in Required(r.res) : r.body[k] = Undefined
    \/ r.op \in {"post", "put"}
       /\ \E k \in Updatable(r.res) :
            r.body[k] # Undefined /\ ~FieldRule(k, r.body[k])

\* The step is one of client c's request.
StepOf(c) == pc'[c] # pc[c] \/ req'[c] # req[c] \/ resp'[c] # resp[c]

\* Client c has just been answered in the step.
Answered(c) == pc[c] # "done" /\ pc'[c] = "done"

\* C1: a Get-by-id, Create, Partial Update or Delete that fails validation
\* is answered 400, issues no storage query, and leaves the rows unchanged.
C1_ValidationShortCircuits ==
    [][\A c \in Clients :
          StepOf(c) /\ req'[c].op \in {"get", "post", "put", "delete"}
          /\ Invalid(req'[c])
          => /\ pc'[c] = "done"
             /\ resp'[c].status = 400 /\ ~resp'[c].ok
             /\ queries'[c] = 0
             /\ db' = db]_vars

\* A Create of a product-ingredient row with cantidad_usada 0 was rejected while
\* a row was stored.
C1_Witness ==
    /\ pc[1] = "done" /\ Invalid(req[1]) /\ resp[1].status = 400
    /\ req[1].op = "post" /\ req[1].res = "producto_ingrediente"
    /\ req[1].body["cantidad_usada"] = Num(0)
    /\ db["producto_ingrediente"] # NoRows

\* No field of the resource's updatable set is in the body.
NothingToUpdate(r) == \A k \in Updatable(r.res) : r.body[k] = Undefined

\* C2: a Partial Update (with an integer id) whose body is empty or has only
\* fields outside the updatable set is answered 400 'Nada para actualizar',
\* obtains no pool, issues no query, and leaves every row unchanged, whether
\* or not the id exists.
C2_EmptyUpdateRejected ==
    [][\A c \in Clients :
          StepOf(c) /\ req'[c].op = "put" /\ ~Invalid(req'[c])
          /\ NothingToUpdate(req'[c])
          => /\ pc'[c] = "done"
             /\ resp'[c].status = 400 /\ ~resp'[c].ok
             /\ resp'[c].message = "Nada para actualizar"
             /\ pool'[c] = 0 /\ queries'[c] = 0
             /\ db' = db]_vars

\* An empty update of an existing row, by a body of unrecognized fields only,
\* was rejected.
C2_Witness ==
    /\ pc[1] = "done" /\ req[1].op = "put" /\ req[1].res = "productos"
    /\ req[1].body["foo"] # Undefined /\ NothingToUpdate(req[1])
    /\ IdOf(req[1].id) \in DOMAIN db["productos"]
    /\ resp[1].message = "Nada para actualizar"

\* The value a column holds after the handler's coercion of the value
\* supplied: 0 or 1 for a boolean field, the number or text otherwise.
Coerced(k, v) ==
    IF k \in BooleanFields THEN (IF Truthy(v) THEN Num(100) ELSE Num(0))
    ELSE IF k \in NumericColumns THEN Num(NumOf(v))
    ELSE v

\* Client c's UPDATE statement has just changed a row.
Updated(c) == pc[c] = "q1" /\ req[c].op = "put" /\ pc'[c] = "q2"

\* C3: a Partial Update that succeeds on an existing id sets exactly the
\* updatable fields its body supplies, to the coerced values supplied; every
\* other column of the row and every other row keeps its value.
C3_UpdateWritesOnlySupplied ==
    [][\A c \in Clients :
          Updated(c) =>
            LET t == req[c].res
                id == IdOf(req[c].id)
                F == {k \in Updatable(t) : req[c].body[k] # Undefined}
            IN  /\ id \in DOMAIN db[t] /\ F # {}
                /\ \A u \in Tables : DOMAIN db'[u] = DOMAIN db[u]
                /\ \A u \in Tables : \A i \in DOMAIN db[u] :
                      <<u, i>> # <<t, id>> => db'[u][i] = db[u][i]
                /\ DOMAIN db'[t][id] = DOMAIN db[t][id]
                /\ \A k \in DOMAIN db[t][id] :
                      db'[t][id][k] = IF k \in F THEN Coerced(k, req[c].body[k])
                                      ELSE db[t][id][k]]_vars

\* An update of one field of a product changed the row while a second
\* product was stored.
C3_Witness ==
    /\ pc[1] = "done" /\ req[1].op = "put" /\ req[1].res = "productos"
    /\ resp[1].status = 200
    /\ req[1].body["disponible"] = Bool(FALSE)
    /\ req[1].body["nombre"] = Undefined
    /\ Cardinality(DOMAIN db["productos"]) = 2
    /\ IdOf(req[1].id) \in DOMAIN db["productos"]
    /\ db["productos"][IdOf(req[1].id)]["disponible"] = Num(0)
    /\ db["productos"][IdOf(req[1].id)]["nombre"] = Str("Cheeseburger")

\* A request the claims about found rows speak of: valid, and for a Partial
\* Update with a field to write.
Effective(r) == ~Invalid(r) /\ (r.op = "put" => ~NothingToUpdate(r))

\* C4: after a Delete of id X succeeded, the row stays absent (ids are not
\* handed out again), and every later Get-by-id, Partial Update with a valid
\* non-empty body and Delete on X whose storage queries do not fail is
\* answered 404.
C4_DeletedStaysNotFound ==
    /\ \A x \in deleted : x[2] \notin DOMAIN db[x[1]]
    /\ \A c \in Clients :
          pc[c] = "done" /\ afterDelete[c] /\ Effective(req[c])
          /\ resp[c].status # 500
          => resp[c].status = 404 /\ ~resp[c].ok

\* A Partial Update of a deleted row was answered 404.
C4_Witness ==
    /\ pc[1] = "done" /\ afterDelete[1] /\ req[1].op = "put" /\ Effective(req[1])
    /\ resp[1].status = 404

\* The ids of the rows of a response.
RowIds(data) == [i \in 1..Len(data) |-> IdOf(data[i]["id"])]

\* C5: the rows of a List are in strictly descending id order, which is the
\* reverse of the order of their Creates; listed after N Creates with no
\* Delete, they are the N rows.
C5_ListDescending ==
    [][\A c \in Clients :
          pc[c] = "q1" /\ req[c].op = "list" /\ Answered(c)
          /\ resp'[c].status = 200
          => LET ids == RowIds(resp'[c].data)
                 listed(i) == \E k \in DOMAIN ids : ids[k] = i
             IN  /\ resp'[c].hasData
                 /\ \A i, j \in DOMAIN ids : i < j => ids[i] > ids[j]
                 /\ ids = Reverse(SelectSeq(created[req[c].res], listed))
                 /\ deleted = {} => Len(ids) = Len(created[req[c].res])]_vars

\* Two rows created one after the other were listed, the second first.
C5_Witness ==
    /\ pc[1] = "done" /\ req[1].op = "list" /\ resp[1].status = 200
    /\ deleted = {} /\ created[req[1].res] = <<1, 2>>
    /\ RowIds(resp[1].data) = <<2, 1>>

\* The value a field of a new row holds for the value supplied, and when
\* none is supplied.
Supplied(k, v) ==
    IF k \in BooleanFields THEN Num(100 * BoolMeaning(v))
    ELSE IF k \in NumericColumns THEN Num(NumOf(v))
    ELSE v

Default(k) == IF k \in BooleanFields THEN Num(100) ELSE Null

\* Is the row read the row of the last Create, with its labels.
RowMatches(row, f) ==
    /\ row["id"] = Num(100 * f.id)
    /\ \A k \in Updatable(f.res) :
          row[k] = IF f.body[k] = Undefined THEN Default(k)
                   ELSE Supplied(k, f.body[k])
    /\ f.res = "productos" =>
          /\ IdOf(row["categoria_id"]) \in DOMAIN db["categorias"]
          /\ row["categoria"] = db["categorias"][IdOf(row["categoria_id"])]["nombre"]
    /\ f.res = "producto_ingrediente" =>
          /\ IdOf(row["producto_id"]) \in DOMAIN db["productos"]
          /\ row["producto"] = db["productos"][IdOf(row["producto_id"])]["nombre"]
          /\ IdOf(row["ingrediente_id"]) \in DOMAIN db["ingredientes"]
          /\ row["ingrediente"] =
                db["ingredientes"][IdOf(row["ingrediente_id"])]["nombre"]

\* C6: a Get-by-id on the id of the last Create, with no write since,
\* returns the row with the values the Create body supplied, the defaults of
\* the fields it left out, the generated id and the joined labels.
C6_GetAfterCreate ==
    [][\A c \in Clients :
          pc[c] = "q1" /\ req[c].op = "get" /\ Answered(c)
          /\ resp'[c].status # 500
          /\ fresh # NoFresh /\ fresh.res = req[c].res /\ fresh.id = IdOf(req[c].id)
          => /\ resp'[c].status = 200 /\ resp'[c].hasData
             /\ RowMatches(resp'[c].data[1], fresh)]_vars

\* C7: a Create answered 201 carries in data the row it inserted.
C7_CreateReturnsRow ==
    \A c \in Clients :
        pc[c] = "done" /\ req[c].op = "post" /\ resp[c].status = 201
        => /\ resp[c].hasData
           /\ resp[c].data[1]["id"] = Num(100 * insertId[c])

\* C8: a Partial Update answered 200 carries in data the addressed row, with
\* every supplied field at the value the request wrote.
C8_UpdateReturnsWritten ==
    \A c \in Clients :
        pc[c] = "done" /\ req[c].op = "put" /\ resp[c].status = 200
        => /\ resp[c].hasData
           /\ resp[c].data[1]["id"] = Num(100 * IdOf(req[c].id))
           /\ \A k \in Updatable(req[c].res) :
                 req[c].body[k] # Undefined
                 => resp[c].data[1][k] = Coerced(k, req[c].body[k])

\* C9: every stored product-ingredient row has cantidad_usada > 0; a Create
\* or Partial Update with cantidad_usada <= 0 is rejected with 400 before any
\* query; a Create with valid fields (cantidad_usada 0.25) is not rejected.
C9_CantidadPositive ==
    /\ \A i \in DOMAIN db["producto_ingrediente"] :
          db["producto_ingrediente"][i]["cantidad_usada"].n > 0
    /\ \A c \in Clients :
          LET r == req[c]
              q == r.body["cantidad_usada"]
          IN  pc[c] # "idle" /\ r.res = "producto_ingrediente"
              /\ r.op \in {"post", "put"}
              => /\ IsNumeric(q) /\ NumOf(q) <= 0
                    => pc[c] = "done" /\ resp[c].status = 400 /\ queries[c] = 0
                 /\ pc[c] = "done" /\ ~Invalid(r) /\ r.op = "post"
                    => resp[c].status # 400

\* A Create with cantidad_usada 0.25 was answered 201 and its row is stored.
C9_Witness ==
    /\ pc[1] = "done" /\ req[1].res = "producto_ingrediente" /\ req[1].op = "post"
    /\ req[1].body["cantidad_usada"] = Num(25) /\ resp[1].status = 201
    /\ insertId[1] \in DOMAIN db["producto_ingrediente"]
    /\ db["producto_ingrediente"][insertId[1]]["cantidad_usada"] = Num(25)

\* The status of an outcome.
StatusOf(op, why) ==
    CASE why \in {"validation", "empty"} -> 400
      [] why = "notfound" -> 404
      [] why = "storage" -> 500
      [] why = "ok" -> IF op = "post" THEN 201 ELSE 200
      [] OTHER -> 0

\* C10: the status of every response is the one of its outcome (200, 201 for
\* a Create, 400 for a validation failure or an empty update, 404 for not
\* found, 500 for a storage failure), and ok is true exactly for 200 and 201.
C10_StatusByOutcome ==
    \A c \in Clients :
        pc[c] = "done" /\ req[c].res \in Tables =>
            /\ resp[c].status \in {200, 201, 400, 404, 500}
            /\ resp[c].status = StatusOf(req[c].op, outcome[c])
            /\ resp[c].ok <=> resp[c].status \in {200, 201}
            /\ req[c].op # "list" /\ Invalid(req[c]) => resp[c].status = 400
            /\ req[c].op = "put" /\ ~Invalid(req[c]) /\ NothingToUpdate(req[c])
               => resp[c].status = 400
            /\ resp[c].status = 201 <=> req[c].op = "post" /\ resp[c].ok
            /\ resp[c].status = 404 => req[c].op \in {"get", "put", "delete"}

\* A Create of a product whose category does not exist was answered 500.
C10_Witness ==
    /\ pc[1] = "done" /\ req[1].res = "productos" /\ req[1].op = "post"
    /\ req[1].body["categoria_id"] = Num(200)
    /\ resp[1].status = 500 /\ queries[1] = 1

\* The errors a storage call may throw.
DriverErrors == {PoolError, QueryError, ForeignKeyError, ValueError, ReferencedError}

\* The messages the handlers answer a storage failure with.
FailureMessages ==
    {"Error listando", "Error obteniendo", "Error insertando", "Error actualizando",
     "Error eliminando"}

\* C11: the step in which a storage call of a request fails issues at most
\* that one query and answers 500 with ok false, no data and a fixed message
\* that is none of the driver's errors; after it the request obtains no pool
\* and issues no query again, and its response stays as sent.
C11_FailureAnswersOnce ==
    [][\A c \in Clients :
          /\ log[c] = "" /\ log'[c] # "" /\ req[c].res \in Tables
             => /\ log'[c] \in DriverErrors
                /\ pc[c] \in {"q1", "q2"} /\ pc'[c] = "done"
                /\ queries'[c] <= queries[c] + 1
                /\ resp'[c].status = 500 /\ ~resp'[c].ok /\ ~resp'[c].hasData
                /\ resp'[c].message \in FailureMessages
                /\ resp'[c].message \notin DriverErrors
          /\ log[c] # "" /\ log'[c] # ""
             => /\ queries'[c] = queries[c] /\ pool'[c] = pool[c]
                /\ resp'[c] = resp[c] /\ log'[c] = log[c]]_vars

\* The re-read of a Create failed after its INSERT: two queries, answered 500.
C11_Witness ==
    /\ pc[1] = "done" /\ req[1].op = "post" /\ log[1] = QueryError
    /\ queries[1] = 2 /\ resp[1].status = 500 /\ ~resp[1].ok
    /\ insertId[1] \in DOMAIN db[req[1].res]

\* C12: the UPDATE step of a valid, non-empty Partial Update that MySQL does
\* not reject answers 404 exactly when no row has the id, and then changes no
\* table; when the row exists it goes on to the re-read, also when the values
\* supplied are the stored ones.  No later step of the request answers 404.
C12_NotFoundIffNoRow ==
    [][\A c \in Clients :
          /\ pc[c] = "q1" /\ req[c].op = "put" /\ pc'[c] # "q1" /\ log'[c] = ""
             => LET exists == IdOf(req[c].id) \in DOMAIN db[req[c].res]
                IN  /\ Effective(req[c])
                    /\ exists <=> pc'[c] = "q2"
                    /\ ~exists <=> pc'[c] = "done" /\ resp'[c].status = 404
                    /\ ~exists => db' = db
          /\ pc[c] = "q2" /\ req[c].op = "put" /\ pc'[c] = "done"
             => resp'[c].status # 404]_vars

\* A Partial Update whose values were the stored ones was answered 200.
C12_Witness ==
    /\ pc[1] = "done" /\ req[1].op = "put" /\ resp[1].status = 200
    /\ resp[1].hasData /\ changedRows[1] = 0 /\ queries[1] = 2

\* C13: a Delete the storage layer serves removes, when a row has the id,
\* exactly that row of its own table with one query, changes no other row of
\* any table, and answers 200 with a confirmation and no data; when no row
\* has the id it answers 404 and changes nothing.
C13_DeleteOwnRowOnly ==
    [][\A c \in Clients :
          pc[c] = "q1" /\ req[c].op = "delete" /\ pc'[c] = "done" /\ log'[c] = ""
          => LET t == req[c].res
                 id == IdOf(req[c].id)
             IN  /\ queries'[c] = 1
                 /\ id \in DOMAIN db[t]
                    => /\ resp'[c].status = 200 /\ resp'[c].ok
                       /\ resp'[c].message = "eliminado" /\ ~resp'[c].hasData
                       /\ DOMAIN db'[t] = DOMAIN db[t] \ {id}
                       /\ \A j \in DOMAIN db'[t] : db'[t][j] = db[t][j]
                       /\ \A u \in Tables \ {t} : db'[u] = db[u]
                 /\ id \notin DOMAIN db[t]
                    => resp'[c].status = 404 /\ ~resp'[c].ok /\ db' = db]_vars

\* A Category was deleted with 200 and the Product that references it is
\* still stored.
C13_Witness ==
    \E c \in Clients :
        /\ pc[c] = "done" /\ req[c].op = "delete" /\ req[c].res = "categorias"
        /\ resp[c].status = 200 /\ IdOf(req[c].id) \notin DOMAIN db["categorias"]
        /\ \E j \in DOMAIN db["productos"] :
              db["productos"][j]["categoria_id"] = Num(100 * IdOf(req[c].id))

\* The parameter a Create or Partial Update hands to its statement for a field.
Handed(r, k) ==
    IF r.op = "post" THEN InsertValues(r)[k] ELSE SetsAsFunction(PutSets(r))[k]

\* C14: for every valid Create and Partial Update of a Product or an
\* Ingredient that supplies the boolean field, the parameter handed to the
\* statement is, as the column takes it, 0 for a value that stands for false
\* and 1 for one that stands for true.
C14_BooleanCoercion ==
    \A c \in Clients :
        pc[c] # "idle" /\ req[c].res \in {"productos", "ingredientes"}
        /\ req[c].op \in {"post", "put"} /\ ~Invalid(req[c])
        => \A k \in BooleanFields \cap Updatable(req[c].res) :
              req[c].body[k] # Undefined
              => ToSql(k, Handed(req[c], k)) = Num(100 * BoolMeaning(req[c].body[k]))

\* Does every stored Product reference a stored Category.
ProductsReferenceCategories(d) ==
    \A j \in DOMAIN d["productos"] :
        IdOf(d["productos"][j]["categoria_id"]) \in DOMAIN d["categorias"]

\* C15: the INSERT or UPDATE of a Product (of an existing one, for the
\* UPDATE) whose categoria_id names no stored Category is answered 500 with
\* ok false and changes no table; and no step that removes no Category makes
\* a stored Product reference a missing Category.
C15_CategoryMustExist ==
    [][/\ \A c \in Clients :
             pc[c] = "q1" /\ req[c].res = "productos" /\ req[c].op \in {"post", "put"}
             /\ pc'[c] # "q1" /\ req[c].body["categoria_id"] # Undefined
             /\ IdOf(ToSql("categoria_id", Handed(req[c], "categoria_id")))
                   \notin DOMAIN db["categorias"]
             /\ (req[c].op = "put" => IdOf(req[c].id) \in DOMAIN db["productos"])
             => /\ pc'[c] = "done" /\ resp'[c].status = 500 /\ ~resp'[c].ok
                /\ ~resp'[c].hasData /\ db' = db
       /\ ProductsReferenceCategories(db)
          /\ DOMAIN db["categorias"] \subseteq DOMAIN db'["categorias"]
          => ProductsReferenceCategories(db')]_vars

\* A Partial Update moving a stored Product to a Category that does not exist
\* was answered 500, and the Product still has its Category.
C15_Witness ==
    /\ pc[1] = "done" /\ req[1].res = "productos" /\ req[1].op = "put"
    /\ log[1] = ForeignKeyError /\ resp[1].status = 500
    /\ IdOf(req[1].id) \in DOMAIN db["productos"]
    /\ ProductsReferenceCategories(db)
    /\ IdOf(ToSql("categoria_id", req[1].body["categoria_id"]))
          \notin DOMAIN db["categorias"]

\* C16: every stored Product has precio >= 0.
C16_PrecioNotNegative ==
    \A j \in DOMAIN db["productos"] : db["productos"][j]["precio"].n >= 0

\* C17: the body of every response, of the four resources and of the health
\* check, has the keys ok and message, and no key other than ok, message and
\* data.
C17_UniformEnvelope ==
    \A c \in Clients :
        pc[c] = "done"
        => /\ {"ok", "message"} \subseteq resp[c].keys
           /\ resp[c].keys \subseteq {"ok", "message", "data"}

\* C18: the INSERT of a Create that leaves out disponible stores disponible 1,
\* that leaves out perecedero stores perecedero 1, and that leaves out
\* descripcion stores descripcion NULL.
C18_CreateDefaults ==
    [][\A c \in Clients :
          pc[c] = "q1" /\ req[c].op = "post" /\ pc'[c] = "q2"
          => LET t == req[c].res
                 row == db'[t][insertId'[c]]
                 omitted(k) == req[c].body[k] = Undefined
             IN  /\ insertId'[c] \in DOMAIN db'[t] \ DOMAIN db[t]
                 /\ t = "productos" /\ omitted("disponible")
                    => row["disponible"] = Num(100)
                 /\ t = "productos" /\ omitted("descripcion")
                    => row["descripcion"] = Null
                 /\ t = "ingredientes" /\ omitted("perecedero")
                    => row["perecedero"] = Num(100)]_vars

\* A Product created from categoria_id, nombre and precio alone was answered
\* 201 and is stored with disponible 1 and descripcion NULL.
C18_Witness ==
    /\ pc[1] = "done" /\ req[1].op = "post" /\ req[1].res = "productos"
    /\ req[1].body["disponible"] = Undefined /\ req[1].body["descripcion"] = Undefined
    /\ resp[1].status = 201 /\ insertId[1] \in DOMAIN db["productos"]
    /\ db["productos"][insertId[1]]["disponible"] = Num(100)
    /\ db["productos"][insertId[1]]["descripcion"] = Null

\* C19: the SET clause of a Partial Update names only updatable columns the
\* body supplies; an INSERT writes the resource's fixed columns and the row
\* gets the next generated id and the server's created_at; no step changes
\* the created_at or the columns of a stored row, and an UPDATE changes no id.
C19_ColumnsFromAllowList ==
    [][/\ \A c \in Clients :
             /\ pc'[c] = "q1" /\ req'[c].op = "put"
                => {sets'[c][i][1] : i \in DOMAIN sets'[c]} \subseteq
                      {k \in Updatable(req'[c].res) : req'[c].body[k] # Undefined}
             /\ pc[c] = "q1" /\ req[c].op = "post" /\ pc'[c] = "q2"
                => LET t == req[c].res
                   IN  /\ DOMAIN InsertValues(req[c]) = Updatable(t)
                       /\ DOMAIN db'[t] = DOMAIN db[t] \cup {nextId[t]}
                       /\ insertId'[c] = nextId[t]
                       /\ DOMAIN db'[t][nextId[t]] = Updatable(t) \cup {"created_at"}
                       /\ db'[t][nextId[t]]["created_at"] = ServerTime
             /\ pc[c] = "q1" /\ req[c].op = "put" /\ pc'[c] = "q2"
                => \A t \in Tables : DOMAIN db'[t] = DOMAIN db[t]
       /\ \A t \in Tables : \A i \in DOMAIN db[t] \cap DOMAIN db'[t] :
             /\ DOMAIN db'[t][i] = DOMAIN db[t][i]
             /\ db'[t][i]["created_at"] = db[t][i]["created_at"]]_vars

\* A Partial Update whose body also carried an id was answered 200 with the
\* row under its own id.
C19_Witness ==
    /\ pc[1] = "done" /\ req[1].op = "put" /\ req[1].body["id"] = Num(900)
    /\ resp[1].status = 200 /\ resp[1].hasData
    /\ resp[1].data[1]["id"] = Num(100 * IdOf(req[1].id))
    /\ resp[1].data[1]["nombre"] = req[1].body["nombre"]
    /\ \A t \in Tables : 9 \notin DOMAIN db[t]

\* Do two rows of producto_ingrediente name the same Product and Ingredient.
SamePair(a, b) ==
    a["producto_id"] = b["producto_id"] /\ a["ingrediente_id"] = b["ingrediente_id"]

\* C20: the INSERT of a valid ProductIngredient whose Product and Ingredient
\* exist, run by a storage layer that does not fail, adds a row under a new
\* id whether or not a stored row has the same pair, and leaves the stored
\* rows as they are; the re-read that finds the row answers 201 with it.
C20_DuplicatePairsAllowed ==
    [][\A c \in Clients :
          /\ pc[c] = "q1" /\ req[c].op = "post" /\ req[c].res = "producto_ingrediente"
             /\ pc'[c] # "q1" /\ log'[c] \notin {PoolError, QueryError}
             /\ FkOk(db, "producto_ingrediente", InsertValues(req[c]))
             => LET t == "producto_ingrediente"
                IN  /\ pc'[c] = "q2" /\ log'[c] = ""
                    /\ insertId'[c] \in DOMAIN db'[t] \ DOMAIN db[t]
                    /\ \A i \in DOMAIN db[t] : i \in DOMAIN db'[t] /\ db'[t][i] = db[t][i]
          /\ pc[c] = "q2" /\ req[c].op = "post" /\ req[c].res = "producto_ingrediente"
             /\ pc'[c] = "done" /\ log'[c] = ""
             /\ SelectById(db, "producto_ingrediente", insertId[c]) # << >>
             => /\ resp'[c].status = 201 /\ resp'[c].ok /\ resp'[c].hasData
                /\ resp'[c].data[1]["id"] = Num(100 * insertId[c])]_vars

\* A ProductIngredient was created with 201 under id 2 with the pair of the
\* stored row 1, and both rows are stored.
C20_Witness ==
    /\ pc[1] = "done" /\ req[1].op = "post" /\ req[1].res = "producto_ingrediente"
    /\ resp[1].status = 201 /\ resp[1].hasData /\ resp[1].data[1]["id"] = Num(200)
    /\ DOMAIN db["producto_ingrediente"] = {1, 2}
    /\ SamePair(db["producto_ingrediente"][1], db["producto_ingrediente"][2])

\* The columns of the display joins.
Labels == {"categoria", "producto", "ingrediente"}

\* Does a row read carry the labels of the rows it references, as they are
\* stored in d.
LabelsCurrent(d, t, row) ==
    /\ t = "productos" =>
          /\ IdOf(row["categoria_id"]) \in DOMAIN d["categorias"]
          /\ row["categoria"] = d["categorias"][IdOf(row["categoria_id"])]["nombre"]
    /\ t = "producto_ingrediente" =>
          /\ IdOf(row["producto_id"]) \in DOMAIN d["productos"]
          /\ row["producto"] = d["productos"][IdOf(row["producto_id"])]["nombre"]
          /\ IdOf(row["ingrediente_id"]) \in DOMAIN d["ingredientes"]
          /\ row["ingrediente"] =
                d["ingredientes"][IdOf(row["ingrediente_id"])]["nombre"]

\* C21: every row a List or Get-by-id returns carries, for each row it
\* references, the nombre that row holds when the read runs (so a read after
\* a rename shows the new name), and no table stores a label column.
C21_LabelsReadAtReadTime ==
    [][/\ \A c \in Clients :
             pc[c] = "q1" /\ req[c].op \in {"list", "get"} /\ Answered(c)
             /\ resp'[c].status = 200
             => \A i \in DOMAIN resp'[c].data :
                   LabelsCurrent(db, req[c].res, resp'[c].data[i])
       /\ \A t \in Tables : \A i \in DOMAIN db'[t] :
             DOMAIN db'[t][i] \cap Labels = {}]_vars

\* A Product created under the Category Hamburguesas was read, after the
\* Category was renamed, with the new name.
C21_Witness ==
    /\ pc[1] = "done" /\ req[1].op = "get" /\ req[1].res = "productos"
    /\ resp[1].status = 200 /\ resp[1].hasData
    /\ resp[1].data[1]["categoria"] = Str("Pizzas")
    /\ 1 \in DOMAIN db["categorias"] /\ IdOf(req[1].id) \in DOMAIN db["productos"]
    /\ db["categorias"][1]["nombre"] = Str("Pizzas")
    /\ db["productos"][IdOf(req[1].id)]["categoria_id"] = Num(100)

\* C22: a Get-by-id of a Product or ProductIngredient served by the storage
\* layer answers 404 only when no row of its table has the id, and a List
\* returns every row stored in its table, also when a row they reference has
\* been deleted.
C22_ReadVisibility ==
    [][\A c \in Clients :
          pc[c] = "q1" /\ Answered(c) /\ log'[c] = ""
          => LET t == req[c].res
             IN  /\ req[c].op = "get" /\ t \in {"productos", "producto_ingrediente"}
                    /\ resp'[c].status = 404
                    => IdOf(req[c].id) \notin DOMAIN db[t]
                 /\ req[c].op = "list"
                    => {IdOf(resp'[c].data[i]["id"]) : i \in DOMAIN resp'[c].data}
                          = DOMAIN db[t]]_vars

\* C23: a Create or Partial Update is answered 500 only by a step that changes
\* no table and before its INSERT or UPDATE has succeeded: never by the
\* re-read that follows the write.
C23_ErrorLeavesStorageUnchanged ==
    [][\A c \in Clients :
          req[c].op \in {"post", "put"} /\ Answered(c) /\ resp'[c].status = 500
          => pc[c] = "q1" /\ db' = db]_vars

\* The updatable fields the body of a request supplies.
SuppliedFields(r) == {k \in Updatable(r.res) : r.body[k] # Undefined}

\* The UPDATE of client c's Partial Update has succeeded, and no step of the
\* request has failed.
Wrote(c) ==
    /\ req[c].op = "put" /\ log[c] = ""
    /\ pc[c] = "q2" \/ (pc[c] = "done" /\ resp[c].status = 200)

\* C24: when the UPDATEs of two Partial Updates of the same stored row that
\* supply disjoint sets of fields have both run, in either order and with
\* their re-reads before or after, each supplied field holds the value its
\* request wrote.
C24_NoLostUpdate ==
    \A c, e \in Clients :
        /\ c # e /\ Wrote(c) /\ Wrote(e)
        /\ req[c].res = req[e].res /\ IdOf(req[c].id) = IdOf(req[e].id)
        /\ SuppliedFields(req[c]) \cap SuppliedFields(req[e]) = {}
        /\ IdOf(req[c].id) \in DOMAIN db[req[c].res]
        => \A k \in SuppliedFields(req[c]) :
              db[req[c].res][IdOf(req[c].id)][k] = Coerced(k, req[c].body[k])

\* Two Partial Updates of Product 1, one of nombre and one of disponible, ran
\* their UPDATEs before either re-read: both were answered 200 with both new
\* values, and the row holds both.
C24_Witness ==
    /\ pc[1] = "done" /\ pc[2] = "done" /\ Wrote(1) /\ Wrote(2)
    /\ req[1].res = "productos" /\ req[2].res = "productos"
    /\ req[1].id = Str("1") /\ req[2].id = Str("1")
    /\ req[1].body = Body([nombre |-> Str("Soda")])
    /\ req[2].body = Body([disponible |-> Bool(FALSE)])
    /\ \A c \in Clients :
          /\ resp[c].hasData
          /\ resp[c].data[1]["nombre"] = Str("Soda")
          /\ resp[c].data[1]["disponible"] = Num(0)
    /\ 1 \in DOMAIN db["productos"]
    /\ db["productos"][1]["nombre"] = Str("Soda")
    /\ db["productos"][1]["disponible"] = Num(0)

\* C25: a row appears in a table only by the INSERT of a Create, under a new
\* id; a deleted id stays absent; and the UPDATE of a Partial Update that runs
\* after a Delete removed its row, also when the request was validated before
\* the Delete, changes no table and answers 404.
C25_OnlyCreateAddsRows ==
    [][/\ \A t \in Tables : \A i \in DOMAIN db'[t] \ DOMAIN db[t] :
             /\ <<t, i>> \notin deleted
             /\ \E c \in Clients :
                   /\ pc[c] = "q1" /\ req[c].op = "post" /\ req[c].res = t
                   /\ pc'[c] = "q2" /\ insertId'[c] = i
       /\ \A x \in deleted' : x[2] \notin DOMAIN db'[x[1]]
       /\ \A c \in Clients :
             pc[c] = "q1" /\ req[c].op = "put" /\ pc'[c] # "q1" /\ log'[c] = ""
             /\ <<req[c].res, IdOf(req[c].id)>> \in deleted
             => /\ pc'[c] = "done" /\ resp'[c].status = 404 /\ ~resp'[c].ok
                /\ db' = db]_vars

\* A Partial Update of row 1 was received while the row was stored, a Delete
\* by the other client removed the row, and the UPDATE then answered 404.
C25_Witness ==
    /\ racing /\ pc[1] = "done" /\ req[1].op = "put" /\ ~afterDelete[1]
    /\ resp[1].status = 404 /\ queries[1] = 1
    /\ pc[2] = "done" /\ req[2].op = "delete" /\ req[2].res = req[1].res
    /\ req[2].id = req[1].id /\ resp[2].status = 200
    /\ <<req[1].res, IdOf(req[1].id)>> \in deleted
    /\ IdOf(req[1].id) \notin DOMAIN db[req[1].res]

\* C26: a request has at most one response sent, and exactly one when it has
\* ended (an early 400 or 404, a success, or the catch branch); and, every
\* storage call eventually returning or failing, every request that reached
\* its handler is eventually answered.
C26_AnsweredExactlyOnce ==
    /\ [](\A c \in Clients :
             /\ sent[c] <= 1
             /\ sent[c] = 1 <=> pc[c] = "done"
             /\ pc[c] = "done" => resp[c].status \in {200, 201, 400, 404, 500})
    /\ \A c \in Clients : pc[c] \in {"q1", "q2"} ~> pc[c] = "done"

\* A Partial Update was answered after its two queries, with one response.
C26_Witness ==
    /\ pc[1] = "done" /\ req[1].op = "put" /\ queries[1] = 2 /\ sent[1] = 1
    /\ resp[1].status = 200

====
